---- MODULE Spec2Model ----
(***************************************************************************)
(* Model of migrate.py: the workspace-identity hash, the storage locator,  *)
(* the content rewriter (store rows, auxiliary files, descriptor) and the  *)
(* migration orchestrator with its batch loop.                             *)
(*                                                                         *)
(* Strings are sequences of one-character strings, so that Python's `in`,  *)
(* str.replace, str.lower, str() and urllib.parse.quote are computed and   *)
(* not assumed.                                                            *)
(***************************************************************************)
EXTENDS Integers, Sequences, FiniteSets, TLC

VARIABLES proj, storage, pc, batch, noCopy, results, last, calls, sq, loc, hs

vars == <<proj, storage, pc, batch, noCopy, results, last, calls, sq, loc, hs>>

mainVars == <<proj, storage, pc, batch, noCopy, results, last, calls>>

(***************************************************************************)
(* Bounds of the model.                                                    *)
(***************************************************************************)
\* number of pieces a store value is assembled from
MaxPieces == 2
\* number of entries os.listdir returns for a base storage directory
MaxEntries == 2
\* number of (source, destination) pairs in one run of main
MaxBatch == 2
\* number of migrate_workspace calls over all runs of the tool
MaxMigrations == 2

\* the value of a variable that a specification does not use
Idle == [phase |-> "none"]

\* the orchestrator's variables in the specifications of a single function
MainUnused ==
  /\ proj = Idle /\ storage = Idle /\ pc = "none" /\ batch = <<>>
  /\ noCopy = FALSE /\ results = <<>> /\ last = Idle /\ calls = 0

(***************************************************************************)
(* Python string primitives.                                               *)
(***************************************************************************)
\* `t in s` for strings
Contains(s, t) ==
  \E i \in 1..(Len(s) - Len(t) + 1) : SubSeq(s, i, i + Len(t) - 1) = t

\* s.replace(old, new): leftmost, non-overlapping occurrences, old non-empty
RECURSIVE Replace(_, _, _)
Replace(s, old, new) ==
  IF Len(s) < Len(old) THEN s
  ELSE IF SubSeq(s, 1, Len(old)) = old
       THEN new \o Replace(SubSeq(s, Len(old) + 1, Len(s)), old, new)
       ELSE <<Head(s)>> \o Replace(Tail(s), old, new)

\* the concatenation of a sequence of strings
RECURSIVE Flatten(_)
Flatten(ss) == IF ss = <<>> THEN <<>> ELSE Head(ss) \o Flatten(Tail(ss))

\* str(n) for a natural number
RECURSIVE Str(_)
Str(n) ==
  LET d == <<"0", "1", "2", "3", "4", "5", "6", "7", "8", "9">>
  IN  IF n < 10 THEN <<d[n + 1]>> ELSE Str(n \div 10) \o <<d[(n % 10) + 1]>>

\* str.lower
LowerChar(c) == IF c = "A" THEN "a" ELSE IF c = "B" THEN "b" ELSE c

Lower(s) == [i \in 1..Len(s) |-> LowerChar(s[i])]

\* characters urllib.parse.quote never escapes, plus its default safe="/"
QuoteSafe == {"a", "b", "c", "x", "A", "B", "0", "1", "2", "3", "4", "5",
              "6", "7", "8", "9", "_", ".", "-", "~", "/"}

QuoteChar(c) ==
  IF c \in QuoteSafe THEN <<c>>
  ELSE IF c = " " THEN <<"%", "2", "0">>
  ELSE IF c = "%" THEN <<"%", "2", "5">>
  ELSE <<"%", "3", "A">>

\* urllib.parse.quote(path)
Quote(s) == Flatten([i \in 1..Len(s) |-> QuoteChar(s[i])])

\* f"file://{urllib.parse.quote(path)}" (os.name /= 'nt')
FileScheme == <<"f", "i", "l", "e", ":", "/", "/">>

ToUri(path) == FileScheme \o Quote(path)

(***************************************************************************)
(* Workspace paths of the model.                                           *)
(***************************************************************************)
PA == <<"/", "a">>
PA1 == <<"/", "a", "1">>
PB == <<"/", "b", " ", "c">>

Paths == {PA, PA1, PB}

(***************************************************************************)
(* Content Rewriter: the two-step replacement of one text.                 *)
(***************************************************************************)
\* the URI step alone
ReplaceUri(value, old_uri, new_uri) ==
  IF Contains(value, old_uri) THEN Replace(value, old_uri, new_uri) ELSE value

\* the path step alone
ReplacePath(value, old_str, new_str) ==
  IF Contains(value, old_str) THEN Replace(value, old_str, new_str) ELSE value

\* new_value of replace_in_sqlite / new_content of replace_in_files
RewriteText(value, old_str, new_str, old_uri, new_uri) ==
  ReplacePath(ReplaceUri(value, old_uri, new_uri), old_str, new_str)

(***************************************************************************)
(* The embedded key-value store (state.vscdb).  A store file is missing,   *)
(* not a database, or a database holding one table of rows key -> value.   *)
(* The host editor declares the key column unique, so the rows are a       *)
(* function of the key; a value is text (str) or not (bytes, int, NULL).   *)
(***************************************************************************)
NoFile == [kind |-> "missing"]

NotADatabase == [kind |-> "corrupt"]

Database(table, rows) == [kind |-> "db", table |-> table, rows |-> rows]

Text(s) == [text |-> TRUE, data |-> s]

Blob(s) == [text |-> FALSE, data |-> s]

\* replace_in_sqlite without its isinstance(value, str) test
RewriteRowAnyType(value, old_str, new_str, old_uri, new_uri) ==
  [text |-> value.text,
   data |-> RewriteText(value.data, old_str, new_str, old_uri, new_uri)]

\* the value replace_in_sqlite computes for one fetched row value
RewriteRow(value, old_str, new_str, old_uri, new_uri) ==
  IF ~value.text THEN value
  ELSE Text(RewriteText(value.data, old_str, new_str, old_uri, new_uri))

\* the table replace_in_sqlite looks up in sqlite_master
ExpectedTable(db) == db.table = "ItemTable"

\* replace_in_sqlite: the store afterwards, the keys an UPDATE was executed
\* for, and whether the except branch printed its warning
replace_in_sqlite(db, old_str, new_str, old_uri, new_uri) ==
  IF db.kind = "missing" THEN [db |-> db, updated |-> {}, warned |-> FALSE]
  ELSE IF db.kind = "corrupt" THEN [db |-> db, updated |-> {}, warned |-> TRUE]
  ELSE IF ~ExpectedTable(db) THEN [db |-> db, updated |-> {}, warned |-> FALSE]
  ELSE LET new(k) == RewriteRow(db.rows[k], old_str, new_str, old_uri, new_uri)
           changed == {k \in DOMAIN db.rows : new(k) # db.rows[k]}
       IN  [db |-> [db EXCEPT !.rows = [k \in DOMAIN db.rows |->
                                          IF k \in changed THEN new(k)
                                          ELSE db.rows[k]]],
            updated |-> changed,
            warned |-> FALSE]

(***************************************************************************)
(* Identity Hasher.  A stat result carries the inode number and the times  *)
(* in whole milliseconds; NoStat is a path that cannot be stat'ed.  The    *)
(* MD5 hex digest is kept as its input, which makes equal digests mean     *)
(* equal digested strings.                                                 *)
(***************************************************************************)
NoStat == [statable |-> FALSE]

Stat(ino, birth, ctime) ==
  [statable |-> TRUE, st_ino |-> ino, st_birthtime |-> birth, st_ctime |-> ctime]

Md5(s) == [md5 |-> s]

Platforms == {"linux", "darwin", "win32", "freebsd", "sunos"}

\* hasattr(stat, 'st_birthtime'): os.stat results carry the field on macOS and
\* the BSDs, not on Linux or Solaris
HasBirthtime(platform) == platform \in {"darwin", "freebsd"}

\* the creation marker the Node script digests
NodeMarker(platform, stat) ==
  IF platform = "linux" THEN stat.st_ino
  ELSE stat.st_birthtime

\* the path string the Node script digests
NodePath(platform, path) == IF platform = "win32" THEN Lower(path) ELSE path

\* the Node script: exit status 1 when statSync throws, else the digest
NodeHash(platform, path, stat) ==
  IF ~stat.statable THEN [ok |-> FALSE]
  ELSE [ok |-> TRUE,
        digest |-> Md5(NodePath(platform, path) \o Str(NodeMarker(platform, stat)))]

\* the creation marker the Python fallback digests
PythonMarker(platform, stat) ==
  IF platform = "win32" THEN stat.st_ctime
  ELSE IF HasBirthtime(platform) THEN stat.st_birthtime
  ELSE stat.st_ino

\* the path string the Python fallback digests
PythonPath(platform, path) == IF platform = "win32" THEN Lower(path) ELSE path

\* the Python fallback: sys.exit(1) when os.stat raises, else the digest
PythonHash(platform, path, stat) ==
  IF ~stat.statable THEN [ok |-> FALSE]
  ELSE [ok |-> TRUE,
        digest |-> Md5(PythonPath(platform, path) \o Str(PythonMarker(platform, stat)))]

\* get_workspace_hash: Node when it is installed and succeeds, else Python
get_workspace_hash(platform, node, path, stat) ==
  IF node /\ NodeHash(platform, path, stat).ok
  THEN NodeHash(platform, path, stat)
  ELSE PythonHash(platform, path, stat)

(***************************************************************************)
(* Storage Locator.  A base storage directory is absent or a listing (in   *)
(* os.listdir order) of entries; an entry's descriptor file is missing,    *)
(* unreadable, malformed, a JSON document that is no object, or a JSON     *)
(* object whose folder and workspace keys are strings or absent (NoKey).   *)
(***************************************************************************)
NoDir == [exists |-> FALSE, listing |-> <<>>]

Dir(listing) == [exists |-> TRUE, listing |-> listing]

NoKey == <<"<", "n", "o", " ", "k", "e", "y", ">">>

Descriptor(fmt, folder, workspace) ==
  [kind |-> "json", fmt |-> fmt, folder |-> folder, workspace |-> workspace]

NoDescriptor == [kind |-> "missing"]

BadDescriptors == {[kind |-> "unreadable"], [kind |-> "malformed"], [kind |-> "nondict"]}

\* the try block comparing the folder field alone
ReadDescriptorFolderOnly(desc, source_uri) ==
  IF desc.kind # "json" THEN "exception"
  ELSE IF desc.folder # NoKey /\ desc.folder = source_uri THEN "match"
  ELSE "nomatch"

\* the body of the try block for one entry: "match", "nomatch", or the
\* exception open / json.load / data.get raises
ReadDescriptor(desc, source_uri) ==
  IF desc.kind # "json" THEN "exception"
  ELSE IF desc.folder # NoKey /\ desc.folder = source_uri THEN "match"
  ELSE IF desc.workspace # NoKey /\ desc.workspace = source_uri THEN "match"
  ELSE "nomatch"

\* one iteration of the for loop: "return", "continue" or "raise"
VisitEntry(desc, source_uri) ==
  IF desc.kind = "missing" THEN "continue"
  ELSE LET r == ReadDescriptor(desc, source_uri)
       IN  IF r = "match" THEN "return" ELSE "continue"

NotFound == [found |-> FALSE, raised |-> FALSE]

\* the for loop over os.listdir(base_dir)
RECURSIVE ScanListing(_, _)
ScanListing(listing, source_uri) ==
  IF listing = <<>> THEN NotFound
  ELSE LET v == VisitEntry(Head(listing).desc, source_uri)
       IN  IF v = "return"
           THEN [found |-> TRUE, raised |-> FALSE, name |-> Head(listing).name]
           ELSE IF v = "raise" THEN [found |-> FALSE, raised |-> TRUE]
           ELSE ScanListing(Tail(listing), source_uri)

\* find_workspace_storage(base_dir, source_uri), base_dir given by its listing
find_workspace_storage(base, source_uri) ==
  IF ~base.exists THEN NotFound ELSE ScanListing(base.listing, source_uri)

(***************************************************************************)
(* Metadata Folders.  A folder holds its descriptor (workspace.json), its  *)
(* store (state.vscdb) and its other files by name; a base storage         *)
(* directory is absent or holds folders by name.                           *)
(***************************************************************************)
Folder(desc, db, files) == [desc |-> desc, db |-> db, files |-> files]

NoBase == [exists |-> FALSE, folders |-> <<>>]

Base(folders) == [exists |-> TRUE, folders |-> folders]

\* the permutations of a set of names: the orders os.listdir may return
Orders(S) ==
  {o \in [1..Cardinality(S) -> S] : \A i, j \in DOMAIN o : i # j => o[i] # o[j]}

\* the base directory as find_workspace_storage sees it under one listing order
Listing(base, order) ==
  IF ~base.exists THEN NoDir
  ELSE Dir([i \in 1..Len(order) |->
              [name |-> order[i], desc |-> base.folders[order[i]].desc]])

\* shutil.rmtree(dest_storage) when it exists
RemoveFolder(folders, name) == [n \in (DOMAIN folders) \ {name} |-> folders[n]]

\* a folder created or replaced under a name
PutFolder(folders, name, folder) ==
  [n \in (DOMAIN folders) \cup {name} |-> IF n = name THEN folder ELSE folders[n]]

\* the names replace_in_files leaves to replace_in_sqlite
StoreFiles == {"state.vscdb", "state.vscdb.backup"}

\* replace_in_files on one file of the walk
RewriteFile(name, file, old_str, new_str, old_uri, new_uri) ==
  IF name \in StoreFiles THEN file
  ELSE IF ~file.text THEN file
  ELSE Text(RewriteText(file.data, old_str, new_str, old_uri, new_uri))

\* replace_in_files on workspace.json, which the walk visits like any other
\* file: the occurrences lie inside the string values of the document
RewriteDescriptorFile(desc, old_str, new_str, old_uri, new_uri) ==
  IF desc.kind # "json" THEN desc
  ELSE [desc EXCEPT
          !.folder = IF @ = NoKey THEN @
                     ELSE RewriteText(@, old_str, new_str, old_uri, new_uri),
          !.workspace = IF @ = NoKey THEN @
                        ELSE RewriteText(@, old_str, new_str, old_uri, new_uri)]

\* replace_in_files(dest_storage, ...)
replace_in_files(folder, old_str, new_str, old_uri, new_uri) ==
  [folder EXCEPT
     !.desc = RewriteDescriptorFile(@, old_str, new_str, old_uri, new_uri),
     !.files = [n \in DOMAIN @ |->
                  RewriteFile(n, @[n], old_str, new_str, old_uri, new_uri)]]

\* migrate_editor, "Update workspace.json": the loaded document after the
\* folder key, else the workspace key, is overwritten
DescriptorRewrite(data, dest_uri) ==
  IF data.folder # NoKey THEN [data EXCEPT !.folder = dest_uri]
  ELSE IF data.workspace # NoKey THEN [data EXCEPT !.workspace = dest_uri]
  ELSE data

\* a write of workspace.json guarded by a comparison with the loaded document
DescriptorWrittenIfChanged(loaded, data) == loaded # data

\* whether migrate_editor opens workspace.json for writing after the rewrite
DescriptorWritten(loaded, data) == TRUE

\* json.dump(data, f, indent=2)
DescriptorDump(data) == [data EXCEPT !.fmt = "indent2"]

\* the platform the orchestrator runs on in this model
MainPlatform == "linux"

NoName == [md5 |-> <<>>]

NotAttempted ==
  [outcome |-> "not attempted", source |-> NoName, dest |-> NoName,
   loaded |-> NoDescriptor, dumped |-> NoDescriptor, wrote |-> FALSE]

\* migrate_editor on one base storage directory.  outcome is "True" or
\* "False" (the return value), "exit" (sys.exit(1) in get_workspace_hash) or
\* "raise" (an exception leaves migrate_editor); source and dest name the
\* located folder and the destination folder; loaded, dumped and wrote record
\* the descriptor step.
migrate_editor(base, order, source_path, dest_path, source_uri, dest_uri, stat, node) ==
  LET located == find_workspace_storage(Listing(base, order), source_uri)
      h == get_workspace_hash(MainPlatform, node, dest_path, stat)
  IN
  IF ~located.found
  THEN [base |-> base, log |-> [NotAttempted EXCEPT !.outcome = "False"]]
  ELSE IF ~h.ok
  THEN [base |-> base,
        log |-> [NotAttempted EXCEPT !.outcome = "exit", !.source = located.name]]
  ELSE
  LET dest == h.digest
      removed == RemoveFolder(base.folders, dest)
  IN
  IF located.name \notin DOMAIN removed
  THEN [base |-> Base(removed),
        log |-> [NotAttempted EXCEPT !.outcome = "raise",
                                     !.source = located.name, !.dest = dest]]
  ELSE
  LET copied == removed[located.name]
      loaded == copied.desc
      data == DescriptorRewrite(loaded, dest_uri)
      wrote == loaded.kind = "json" /\ DescriptorWritten(loaded, data)
      dumped == IF wrote THEN DescriptorDump(data) ELSE loaded
      sqlite == replace_in_sqlite(copied.db, source_path, dest_path,
                                  source_uri, dest_uri)
      rewritten == replace_in_files(Folder(dumped, sqlite.db, copied.files),
                                    source_path, dest_path, source_uri, dest_uri)
  IN
  IF loaded.kind \notin {"json", "missing"}
  THEN [base |-> Base(PutFolder(removed, dest, copied)),
        log |-> [NotAttempted EXCEPT !.outcome = "raise",
                                     !.source = located.name, !.dest = dest]]
  ELSE [base |-> Base(PutFolder(removed, dest, rewritten)),
        log |-> [outcome |-> "True", source |-> located.name, dest |-> dest,
                 loaded |-> loaded, dumped |-> dumped, wrote |-> wrote]]

(***************************************************************************)
(* Migration Orchestrator.                                                 *)
(***************************************************************************)
Editors == {"VS Code", "Cursor"}

Result(name, status, files, vscode, cursor, details) ==
  [name |-> name, status |-> status, files |-> files, vscode |-> vscode,
   cursor |-> cursor, details |-> details]

Failed(name, details) ==
  Result(name, "Failed", "Failed", "Not Found", "Not Found", details)

\* migrate_workspace without its same-path test
SamePathUnchecked(source_path, dest_path) == FALSE

\* the test `source_path == dest_path`
SamePath(source_path, dest_path) == source_path = dest_path

\* the "Copy project folder" stage: the project directories afterwards, the
\* files status, and the details of the failure that ends the call ("" when
\* the call goes on).  env.copyOK says whether shutil.copytree succeeds,
\* env.created whether a failing copytree had created the destination,
\* env.ino is the inode number of a destination it creates.
CopyProject(source_path, dest_path, no_copy, p, env) ==
  IF ~no_copy
  THEN IF p[dest_path].statable
       THEN [proj |-> p, files |-> "Exists", details |-> ""]
       ELSE IF env.copyOK
       THEN [proj |-> [p EXCEPT ![dest_path] = Stat(env.ino, 7, 7)],
             files |-> "Copied", details |-> ""]
       ELSE [proj |-> IF env.created
                      THEN [p EXCEPT ![dest_path] = Stat(env.ino, 7, 7)]
                      ELSE p,
             files |-> "Failed", details |-> "Copy failed"]
  ELSE IF ~p[dest_path].statable
       THEN [proj |-> p, files |-> "Failed", details |-> "Dest missing (--no-copy)"]
       ELSE [proj |-> p, files |-> "Skipped", details |-> ""]

EditorStatus(log) == IF log.outcome = "True" THEN "Migrated" ELSE "Not Found"

Aborts(log) == log.outcome \in {"exit", "raise"}

\* the one element of a singleton set
Only(S) == CHOOSE x \in S : TRUE

\* the end of migrate_workspace, from what the two migrate_editor calls did:
\* an abort inside the first one leaves the second one unattempted
AfterEditors(source_path, copy, st, vscode, cursor) ==
  LET idle == [e \in Editors |-> NotAttempted]
  IN
  IF Aborts(vscode.log)
  THEN [proj |-> copy.proj,
        storage |-> [st EXCEPT !["VS Code"] = vscode.base],
        abort |-> vscode.log.outcome,
        ed |-> [idle EXCEPT !["VS Code"] = vscode.log],
        result |-> Failed(source_path, "")]
  ELSE IF Aborts(cursor.log)
  THEN [proj |-> copy.proj,
        storage |-> [st EXCEPT !["VS Code"] = vscode.base, !["Cursor"] = cursor.base],
        abort |-> cursor.log.outcome,
        ed |-> [idle EXCEPT !["VS Code"] = vscode.log, !["Cursor"] = cursor.log],
        result |-> Failed(source_path, "")]
  ELSE [proj |-> copy.proj,
        storage |-> [st EXCEPT !["VS Code"] = vscode.base, !["Cursor"] = cursor.base],
        abort |-> "none",
        ed |-> [idle EXCEPT !["VS Code"] = vscode.log, !["Cursor"] = cursor.log],
        result |-> Result(source_path, "Done", copy.files,
                          EditorStatus(vscode.log), EditorStatus(cursor.log), "")]

\* migrate_workspace for one pair.  abort is "none" when the call returns its
\* result, else the way the process ends inside it; ed holds what
\* migrate_editor did for each editor.  env.statOK says whether the stat of
\* the destination path in get_workspace_hash succeeds, env.node whether Node
\* is installed, env.order is the listing order of each base directory.
migrate_workspace(source_path, dest_path, no_copy, p, st, env) ==
  LET stop(details, pp) ==
        [proj |-> pp, storage |-> st, abort |-> "none",
         ed |-> [e \in Editors |-> NotAttempted],
         result |-> Failed(source_path, details)]
      source_uri == ToUri(source_path)
      dest_uri == ToUri(dest_path)
      editor(name, copy) ==
        migrate_editor(st[name], env.order[name], source_path, dest_path,
                       source_uri, dest_uri,
                       IF env.statOK THEN copy.proj[dest_path] ELSE NoStat,
                       env.node)
  IN
  IF ~p[source_path].statable THEN stop("Source missing", p)
  ELSE IF SamePath(source_path, dest_path) THEN stop("Same path", p)
  ELSE Only({IF copy.details # "" THEN stop(copy.details, copy.proj)
             ELSE Only({AfterEditors(source_path, copy, st, vscode, cursor) :
                          vscode \in {editor("VS Code", copy)},
                          cursor \in {editor("Cursor", copy)}}) :
             copy \in {CopyProject(source_path, dest_path, no_copy, p, env)}})

(***************************************************************************)
(* main: the runs of the tool over the project directories and the two     *)
(* base storage directories.                                               *)
(***************************************************************************)
Inodes == {2, 12}

Pairs == Paths \X Paths

\* workspaces_to_migrate: one pair without --batch; with --batch the
\* directories found under the source root, paired by name
Batches(p) ==
  {<<pair>> : pair \in Pairs}
    \cup {b \in UNION {[1..n -> Pairs] : n \in 2..MaxBatch} :
            /\ \A i \in DOMAIN b : p[b[i][1]].statable
            /\ \A i, j \in DOMAIN b :
                 i # j => (b[i][1] # b[j][1] /\ b[i][2] # b[j][2])}

\* the folder the editor created when it opened /a
StoredName == Md5(PA \o Str(12))

StoredDb ==
  Database("ItemTable",
           [k \in {"lastPath", "uri", "blob"} |->
              IF k = "lastPath" THEN Text(PA \o <<"/", "x">>)
              ELSE IF k = "uri" THEN Text(ToUri(PA))
              ELSE Blob(PA)])

StoredFiles ==
  [n \in {"chat.json", "state.vscdb.backup", "icon.png"} |->
     IF n = "icon.png" THEN Blob(PA) ELSE Text(ToUri(PA) \o <<"x">> \o PA)]

\* descriptors the VS Code folder starts with: single-root, multi-root, one
\* carrying a foreign folder key beside the workspace key, and one with
\* neither key
InitDescriptors ==
  {Descriptor("compact", ToUri(PA), NoKey),
   Descriptor("compact", NoKey, ToUri(PA)),
   Descriptor("compact", ToUri(PB), ToUri(PA)),
   Descriptor("compact", NoKey, NoKey)}

CursorFolder == Folder(Descriptor("indent2", ToUri(PA), NoKey), NoFile, <<>>)

\* the two base storage directories at the start: Cursor has opened /a too,
\* or was never installed
InitStorage ==
  {[e \in Editors |->
      IF e = "Cursor" THEN Base([n \in {StoredName} |-> CursorFolder])
      ELSE Base([n \in {StoredName} |-> Folder(d, StoredDb, StoredFiles)])] :
     d \in InitDescriptors}
  \cup
  {[e \in Editors |->
      IF e = "Cursor" THEN NoBase
      ELSE Base([n \in {StoredName} |->
                   Folder(Descriptor("compact", ToUri(PA), NoKey),
                          StoredDb, StoredFiles)])]}

NoCall == Idle

Init ==
  /\ \E a1 \in {NoStat, Stat(2, 7, 7)} :
       proj = [q \in Paths |-> IF q = PA THEN Stat(12, 7, 7)
                               ELSE IF q = PA1 THEN a1 ELSE NoStat]
  /\ storage \in InitStorage
  /\ pc = "idle" /\ batch = <<>> /\ noCopy = FALSE /\ results = <<>>
  /\ last = NoCall /\ calls = 0
  /\ sq = Idle /\ loc = Idle /\ hs = Idle

\* whether migrate_workspace calls shutil.copytree on the project folder
CopyAttempted(source_path, dest_path, no_copy, p) ==
  /\ p[source_path].statable
  /\ ~SamePath(source_path, dest_path)
  /\ ~no_copy
  /\ ~p[dest_path].statable

\* whether migrate_workspace gets as far as its migrate_editor calls
EditorsReached(source_path, dest_path, no_copy, p, copyOK) ==
  /\ p[source_path].statable
  /\ ~SamePath(source_path, dest_path)
  /\ IF no_copy THEN p[dest_path].statable
     ELSE (p[dest_path].statable \/ copyOK)

\* whether some migrate_editor call of migrate_workspace gets as far as
\* get_workspace_hash
HashCalled(source_path, dest_path, no_copy, p, st, copyOK, order) ==
  /\ EditorsReached(source_path, dest_path, no_copy, p, copyOK)
  /\ \A e \in Editors : order[e] \in Orders(DOMAIN st[e].folders)
  /\ \E e \in Editors :
       find_workspace_storage(Listing(st[e], order[e]), ToUri(source_path)).found

\* a run of main starts: the arguments are parsed and the pairs collected
StartRun ==
  /\ pc \in {"idle", "done", "exited", "crashed"}
  /\ \E b \in Batches(proj) :
       /\ calls + Len(b) <= MaxMigrations
       /\ batch' = b
  /\ noCopy' \in BOOLEAN
  /\ results' = <<>>
  /\ pc' = "running"
  /\ UNCHANGED <<proj, storage, last, calls, sq, loc, hs>>

\* one iteration of the for loop of main
MigrateNext ==
  /\ pc = "running"
  /\ Len(results) < Len(batch)
  /\ LET pair == batch[Len(results) + 1]
         copies == CopyAttempted(pair[1], pair[2], noCopy, proj)
     IN  \E copyOK \in IF copies THEN BOOLEAN ELSE {TRUE} :
         \E created \in IF copyOK THEN {TRUE} ELSE BOOLEAN :
         \E ino \in IF copies /\ created THEN Inodes ELSE {2} :
         \E order \in [Editors -> UNION {Orders(DOMAIN storage[e].folders) :
                                           e \in Editors}] :
         \E statOK \in IF HashCalled(pair[1], pair[2], noCopy, proj, storage,
                                     copyOK, order)
                       THEN BOOLEAN ELSE {TRUE} :
         \E node \in IF HashCalled(pair[1], pair[2], noCopy, proj, storage,
                                   copyOK, order) /\ statOK
                     THEN BOOLEAN ELSE {FALSE} :
             /\ \A e \in Editors : order[e] \in Orders(DOMAIN storage[e].folders)
             /\ LET env == [copyOK |-> copyOK, created |-> created, ino |-> ino,
                            statOK |-> statOK, node |-> node, order |-> order]
                IN  \E r \in {migrate_workspace(pair[1], pair[2], noCopy, proj,
                                                storage, env)} :
                    /\ proj' = r.proj
                    /\ storage' = r.storage
                    /\ last' = [phase |-> "call", src |-> pair[1], dst |-> pair[2],
                                noCopy |-> noCopy, copyOK |-> copyOK,
                                statOK |-> statOK,
                                projBefore |-> proj, before |-> storage,
                                result |-> r.result, abort |-> r.abort, ed |-> r.ed,
                                logged |-> IF r.abort = "none"
                                           THEN Append(results, r.result)
                                           ELSE results,
                                resultsBefore |-> results,
                                prev |-> IF last.phase = "call"
                                         THEN [src |-> last.src, dst |-> last.dst,
                                               status |-> IF last.abort = "none"
                                                          THEN last.result.status
                                                          ELSE last.abort]
                                         ELSE [src |-> <<>>, dst |-> <<>>,
                                               status |-> "none"]]
                    /\ IF r.abort = "none"
                       THEN results' = Append(results, r.result) /\ pc' = "running"
                       ELSE /\ results' = results
                            /\ pc' = IF r.abort = "exit" THEN "exited" ELSE "crashed"
  /\ calls' = calls + 1
  /\ UNCHANGED <<batch, noCopy, sq, loc, hs>>

\* the loop is over: the summary table is printed from results
PrintSummary ==
  /\ pc = "running"
  /\ Len(results) = Len(batch)
  /\ pc' = "done"
  /\ UNCHANGED <<proj, storage, batch, noCopy, results, last, calls, sq, loc, hs>>

Next == StartRun \/ MigrateNext \/ PrintSummary

Spec == Init /\ [][Next]_vars

(***************************************************************************)
(* Properties of the orchestrator.  last describes the most recent call of *)
(* migrate_workspace: its arguments, the project directories and the base  *)
(* storage directories before it, and what it did.                         *)
(***************************************************************************)
Called == last.phase = "call"

\* the editors for which the last call's migrate_editor returned True
Migrated(e) == last.ed[e].outcome = "True"

\* C1: no failure inside one pair's migrate_workspace ends the process, and
\* a finished run has one summary entry per pair of the batch.
C1_BatchSurvives ==
  /\ pc \notin {"exited", "crashed"}
  /\ pc = "done" => Len(results) = Len(batch)

\* C2: for every editor the folder find_workspace_storage returned is, after
\* migrate_editor, still there and as it was, and so is every folder other
\* than the one named by the destination hash.
C2_SourceUntouched ==
  Called =>
    \A e \in Editors :
      last.ed[e].source # NoName =>
        LET before == last.before[e].folders
            after == storage[e].folders
        IN  /\ last.ed[e].source \in DOMAIN after
            /\ after[last.ed[e].source] = before[last.ed[e].source]
            /\ \A n \in DOMAIN before :
                 n # last.ed[e].dest => (n \in DOMAIN after /\ after[n] = before[n])

\* whether a text holds the source URI or the source path
HoldsSource(text, src) == Contains(text, ToUri(src)) \/ Contains(text, src)

\* a Metadata Folder whose descriptor, text store rows and auxiliary text
\* files hold no source URI and no source path
OnlyDestinationStrings(folder, src) ==
  /\ folder.desc.kind = "json" =>
       /\ folder.desc.folder # NoKey => ~HoldsSource(folder.desc.folder, src)
       /\ folder.desc.workspace # NoKey => ~HoldsSource(folder.desc.workspace, src)
  /\ folder.db.kind = "db" =>
       \A k \in DOMAIN folder.db.rows :
         folder.db.rows[k].text => ~HoldsSource(folder.db.rows[k].data, src)
  /\ \A n \in (DOMAIN folder.files) \ StoreFiles :
       folder.files[n].text => ~HoldsSource(folder.files[n].data, src)

\* the last call repeats, with copy suppressed and the destination path
\* statable, the pair of the call before it, which had ended "Done"
SecondRun ==
  /\ Called
  /\ last.noCopy
  /\ last.statOK
  /\ last.prev.status = "Done"
  /\ last.prev.src = last.src
  /\ last.prev.dst = last.dst

\* C4: the second run of a pair, with copy suppressed, does not fail and
\* leaves the destination Metadata Folders as the first run left them, with
\* destination strings only.
C4_Idempotent ==
  SecondRun =>
    /\ last.abort = "none"
    /\ last.result.status = "Done"
    /\ \A e \in Editors :
         /\ storage[e] = last.before[e]
         /\ Migrated(e) =>
              OnlyDestinationStrings(storage[e].folders[last.ed[e].dest], last.src)

\* the precondition failures of migrate_workspace, from its arguments and the
\* project directories before the call
SourceMissing == ~last.projBefore[last.src].statable

SameArgs == ~SourceMissing /\ last.src = last.dst

CopyFailed ==
  /\ ~SourceMissing /\ last.src # last.dst /\ ~last.noCopy
  /\ ~last.projBefore[last.dst].statable /\ ~last.copyOK

DestMissing ==
  /\ ~SourceMissing /\ last.src # last.dst /\ last.noCopy
  /\ ~last.projBefore[last.dst].statable

\* C6: each precondition failure of migrate_workspace returns a "Failed"
\* result, logged as this pair's one entry, without ending the run, and with
\* no editor step attempted: every Metadata Folder is as it was.
C6_PreconditionFailures ==
  Called =>
    /\ (SourceMissing \/ SameArgs \/ CopyFailed \/ DestMissing) =>
         /\ last.abort = "none"
         /\ last.result.status = "Failed"
         /\ last.logged = Append(last.resultsBefore, last.result)
         /\ \A e \in Editors : last.ed[e] = NotAttempted
         /\ storage = last.before
         /\ pc \in {"running", "done"}
    /\ SourceMissing => last.result.details = "Source missing"
    /\ SameArgs => last.result.details = "Same path"
    /\ CopyFailed => last.result.details = "Copy failed"
    /\ DestMissing => last.result.details = "Dest missing (--no-copy)"

\* a batch of two pairs finished after the project copy of its second pair
\* failed
C6_Witness ==
  /\ Called
  /\ CopyFailed
  /\ pc = "done"
  /\ Len(results) = 2
  /\ results[2].status = "Failed"

\* whether the rewrite of the loaded descriptor changed it
RewriteChanged(log, dest_uri) == DescriptorRewrite(log.loaded, dest_uri) # log.loaded

\* C8 as stated: the descriptor of the destination copy is written back only
\* if the rewrite changed it, and is otherwise the copied file, byte for byte.
C8_WrittenOnlyIfChanged ==
  Called =>
    \A e \in Editors :
      (Migrated(e) /\ last.ed[e].loaded.kind = "json") =>
        /\ last.ed[e].wrote => RewriteChanged(last.ed[e], ToUri(last.dst))
        /\ ~RewriteChanged(last.ed[e], ToUri(last.dst)) =>
             last.ed[e].dumped = last.ed[e].loaded

\* C8 as amended: the descriptor of the destination copy is written back
\* whenever it exists, changed or not: re-serialised with indent 2, the folder
\* key, else the workspace key, holding the destination URI and the other
\* key as loaded.
C8_AlwaysWritten ==
  Called =>
    \A e \in Editors :
      (Migrated(e) /\ last.ed[e].loaded.kind = "json") =>
        LET loaded == last.ed[e].loaded
            dumped == last.ed[e].dumped
        IN  /\ last.ed[e].wrote
            /\ dumped.kind = "json" /\ dumped.fmt = "indent2"
            /\ loaded.folder # NoKey =>
                 (dumped.folder = ToUri(last.dst) /\ dumped.workspace = loaded.workspace)
            /\ loaded.folder = NoKey =>
                 /\ dumped.folder = NoKey
                 /\ loaded.workspace # NoKey => dumped.workspace = ToUri(last.dst)

\* a migration whose descriptor already held the destination URI under its
\* folder key: the rewrite changed nothing and the file was written anyway,
\* in another layout than the copied one
C8_Witness ==
  /\ Called
  /\ Migrated("VS Code")
  /\ last.ed["VS Code"].loaded.folder = ToUri(last.dst)
  /\ last.ed["VS Code"].wrote
  /\ last.ed["VS Code"].dumped # last.ed["VS Code"].loaded

\* C10: after migrate_editor returned True for source URI /= destination URI,
\* the descriptor of the folder named by the destination hash matches the
\* destination URI and no longer matches the source URI.
C10_DescriptorRetargeted ==
  Called =>
    \A e \in Editors :
      (Migrated(e) /\ ToUri(last.src) # ToUri(last.dst)) =>
        LET desc == storage[e].folders[last.ed[e].dest].desc
        IN  /\ ReadDescriptor(desc, ToUri(last.dst)) = "match"
            /\ ReadDescriptor(desc, ToUri(last.src)) # "match"

(***************************************************************************)
(* Specification of replace_in_sqlite alone: the inputs are drawn in Init, *)
(* the call is the only action.                                            *)
(***************************************************************************)
\* the strings a stored value is assembled from
Pieces(src, dst) == {ToUri(src), src, ToUri(dst), dst, <<"x">>}

PieceSeqs(src, dst) ==
  UNION {[1..n -> Pieces(src, dst)] : n \in 0..MaxPieces}

TextValues(src, dst) == {Text(Flatten(ps)) : ps \in PieceSeqs(src, dst)}

OtherValues(src, dst) == {Blob(src), Blob(ToUri(src) \o <<"x">>), Text(src \o <<"x">>)}

StoreInputs(src, dst) ==
  {NoFile, NotADatabase}
    \cup {Database(t, [k \in {"k1", "k2"} |-> IF k = "k1" THEN v1 ELSE v2]) :
            t \in {"ItemTable", "Other"},
            v1 \in TextValues(src, dst) \cup OtherValues(src, dst),
            v2 \in OtherValues(src, dst)}


SqliteInit ==
  /\ \E src \in Paths :
       \E dst \in Paths \ {src} :
         \E db \in StoreInputs(src, dst) :
         sq = [phase |-> "in", src |-> src, dst |-> dst, db |-> db]
  /\ MainUnused
  /\ loc = Idle /\ hs = Idle

SqliteCall ==
  /\ sq.phase = "in"
  /\ sq' = [phase |-> "out", src |-> sq.src, dst |-> sq.dst, db |-> sq.db,
            res |-> replace_in_sqlite(sq.db, sq.src, sq.dst,
                                      ToUri(sq.src), ToUri(sq.dst))]
  /\ UNCHANGED <<mainVars, loc, hs>>

SpecSqlite == SqliteInit /\ [][SqliteCall]_vars

\* single-pass substitution: every occurrence of the source URI becomes the
\* destination URI, every other occurrence of the source path becomes the
\* destination path, and the text put in place is not scanned again
RECURSIVE SubstitutedOnce(_, _, _, _, _)
SubstitutedOnce(s, old_str, new_str, old_uri, new_uri) ==
  IF s = <<>> THEN <<>>
  ELSE IF Len(s) >= Len(old_uri) /\ SubSeq(s, 1, Len(old_uri)) = old_uri
       THEN new_uri \o SubstitutedOnce(SubSeq(s, Len(old_uri) + 1, Len(s)),
                                       old_str, new_str, old_uri, new_uri)
  ELSE IF Len(s) >= Len(old_str) /\ SubSeq(s, 1, Len(old_str)) = old_str
       THEN new_str \o SubstitutedOnce(SubSeq(s, Len(old_str) + 1, Len(s)),
                                       old_str, new_str, old_uri, new_uri)
  ELSE <<Head(s)>> \o SubstitutedOnce(Tail(s), old_str, new_str, old_uri, new_uri)

\* the rows of a call that the rewriter visited: the table is ItemTable
SqVisited == sq.phase = "out" /\ sq.db.kind = "db" /\ ExpectedTable(sq.db)

\* C3: every text row value holding both the source URI and the source path
\* holds, after replace_in_sqlite, neither of them, and holds the destination
\* URI and path exactly where the source ones were, each substituted once.
C3_RoundTrip ==
  SqVisited =>
    \A k \in DOMAIN sq.db.rows :
      LET v == sq.db.rows[k]
          w == sq.res.db.rows[k]
      IN  (v.text /\ Contains(v.data, ToUri(sq.src)) /\ Contains(v.data, sq.src))
            => /\ w.text
               /\ ~Contains(w.data, ToUri(sq.src))
               /\ ~Contains(w.data, sq.src)
               /\ Contains(w.data, ToUri(sq.dst))
               /\ Contains(w.data, sq.dst)
               /\ w.data = SubstitutedOnce(v.data, sq.src, sq.dst,
                                           ToUri(sq.src), ToUri(sq.dst))

\* C9: replace_in_sqlite leaves non-text rows and text rows without an
\* occurrence as they were, executes an UPDATE only for rows whose value
\* changed, keeps the set of keys and the table, and leaves a store without
\* ItemTable, or a missing store file, untouched without a warning.
C9_StoreFrame ==
  sq.phase = "out" =>
    /\ sq.res.db.kind = sq.db.kind
    /\ sq.db.kind = "missing" => (sq.res.db = sq.db /\ ~sq.res.warned)
    /\ sq.db.kind = "db" =>
         /\ sq.res.db.table = sq.db.table
         /\ DOMAIN sq.res.db.rows = DOMAIN sq.db.rows
         /\ ~sq.res.warned
         /\ ~ExpectedTable(sq.db) => (sq.res.db = sq.db /\ sq.res.updated = {})
         /\ sq.res.updated = {k \in DOMAIN sq.db.rows :
                                sq.res.db.rows[k] # sq.db.rows[k]}
         /\ \A k \in DOMAIN sq.db.rows :
              LET v == sq.db.rows[k]
              IN  (\/ ~v.text
                   \/ (~Contains(v.data, ToUri(sq.src)) /\ ~Contains(v.data, sq.src)))
                    => sq.res.db.rows[k] = v

\* a call that rewrote one row and left a non-text row holding the source
\* path alone
C9_Witness ==
  /\ SqVisited
  /\ sq.res.updated = {"k1"}
  /\ sq.db.rows["k2"] = Blob(sq.src)
  /\ sq.res.db.rows["k2"] = Blob(sq.src)

(***************************************************************************)
(* Specification of get_workspace_hash alone.                              *)
(***************************************************************************)
HashPaths == {PA, PA1, <<"/", "A">>, <<"/", "B", "a">>}

\* on Windows st_ctime is the creation time, elsewhere the change time
StatInputs(platform) ==
  {NoStat} \cup {st \in {Stat(i, b, c) : i \in {2, 12}, b \in {7, 1200},
                                           c \in {7, 1200}} :
                   platform = "win32" => st.st_ctime = st.st_birthtime}

HashInit ==
  /\ \E platform \in Platforms, node \in BOOLEAN, path \in HashPaths :
       \E stat \in StatInputs(platform) :
         hs = [phase |-> "in", platform |-> platform, node |-> node,
               path |-> path, stat |-> stat]
  /\ MainUnused
  /\ sq = Idle /\ loc = Idle

HashCall ==
  /\ hs.phase = "in"
  /\ hs' = [phase |-> "out", platform |-> hs.platform, node |-> hs.node,
            path |-> hs.path, stat |-> hs.stat,
            res |-> get_workspace_hash(hs.platform, hs.node, hs.path, hs.stat),
            viaNode |-> NodeHash(hs.platform, hs.path, hs.stat),
            viaPython |-> PythonHash(hs.platform, hs.path, hs.stat)]
  /\ UNCHANGED <<mainVars, sq, loc>>

SpecHash == HashInit /\ [][HashCall]_vars

\* C7: on every platform and for every statable path the Python fallback
\* digests the same (path string, creation marker) as the Node script, so the
\* two digests are equal.
C7_HashEquivalence ==
  (hs.phase = "out" /\ hs.stat.statable) =>
    /\ hs.viaNode.ok /\ hs.viaPython.ok
    /\ hs.viaNode.digest = hs.viaPython.digest

(***************************************************************************)
(* Specification of find_workspace_storage alone.                          *)
(***************************************************************************)
LocUris == {ToUri(PA), ToUri(PB)}

DescriptorInputs ==
  {NoDescriptor} \cup BadDescriptors
    \cup {Descriptor("compact", f, w) : f \in LocUris \cup {NoKey},
                                        w \in LocUris \cup {NoKey}}

EntryName(i) == <<"f">> \o Str(i)

ListingInputs ==
  UNION {{Dir([i \in 1..n |-> [name |-> EntryName(i), desc |-> d[i]]]) :
            d \in [1..n -> DescriptorInputs]} : n \in 0..MaxEntries}

LocatorInit ==
  /\ \E base \in {NoDir} \cup ListingInputs, uri \in LocUris :
       loc = [phase |-> "in", base |-> base, uri |-> uri]
  /\ MainUnused
  /\ sq = Idle /\ hs = Idle

LocatorCall ==
  /\ loc.phase = "in"
  /\ loc' = [phase |-> "out", base |-> loc.base, uri |-> loc.uri,
             res |-> find_workspace_storage(loc.base, loc.uri)]
  /\ UNCHANGED <<mainVars, sq, hs>>

SpecLocator == LocatorInit /\ [][LocatorCall]_vars

\* the positions of a listing whose descriptor is a readable JSON object with
\* its folder or its workspace field equal to uri
Matching(base, uri) ==
  {i \in 1..Len(base.listing) :
     /\ base.exists
     /\ base.listing[i].desc.kind = "json"
     /\ \/ base.listing[i].desc.folder = uri
        \/ base.listing[i].desc.workspace = uri}

\* C5: find_workspace_storage never raises; what it returns is "not found" or
\* an entry whose readable descriptor has folder or workspace equal to uri;
\* it is that entry when exactly one matches (the first one when several do)
\* and "not found" when none matches or the base directory does not exist.
C5_Locator ==
  loc.phase = "out" =>
    LET m == Matching(loc.base, loc.uri)
    IN  /\ ~loc.res.raised
        /\ loc.res.found =>
             \E i \in m : loc.base.listing[i].name = loc.res.name
        /\ m = {} => ~loc.res.found
        /\ m # {} =>
             /\ loc.res.found
             /\ \E i \in m : /\ loc.base.listing[i].name = loc.res.name
                             /\ \A j \in m : i <= j
        /\ ~loc.base.exists => ~loc.res.found

\* a listing whose first entry has a malformed descriptor and whose second
\* entry is the only match, and is returned
C5_Witness ==
  /\ loc.phase = "out"
  /\ Len(loc.base.listing) = 2
  /\ loc.base.listing[1].desc.kind = "malformed"
  /\ Matching(loc.base, loc.uri) = {2}
  /\ loc.res.found
  /\ loc.res.name = loc.base.listing[2].name

====
